---- MODULE Spec2Model ----
(***************************************************************************)
(* Attendance reconciliation engine of release/20250716/execute.py.        *)
(*                                                                         *)
(* Conventions of the model                                                *)
(*   - a date string 'YYYY-MM-DD' is the triple <<y, m, d>>; a date object *)
(*     is its proleptic Gregorian ordinal minus EpochOrdinal (so that a    *)
(*     datetime fits TLC's 32-bit integers);                               *)
(*   - a datetime is a number of seconds: date * 86400 + second of day;    *)
(*   - a duration in hours (a Python float) is the exact number of        *)
(*     seconds it stands for (8.75 h = 31500), so comparisons are exact;   *)
(*   - the Chinese literals of the source are transliterated:              *)
(*       shangwu (morning marker), xiawu (afternoon marker),               *)
(*       yishengxiao / weishengxiao (status effective / pending),          *)
(*       weidaka (no punch), loudaka (single punch missing),               *)
(*       chuqinbuzu (insufficient attendance), zhengchang (normal),        *)
(*       quanzhi (full time), Shanghai.                                    *)
(***************************************************************************)
EXTENDS Integers, Sequences, FiniteSets, TLC

VARIABLES
    \* ---- inputs of main() / analyze_attendance ----
    employee_df,      \* roster rows
    kaoqin_df,        \* badge events
    xiujia_df,        \* leave table
    waichu_df,        \* out-of-office table
    chuchai_df,       \* business-travel table
    linshika_df,      \* supplemental-card rows
    work_days,        \* calendar: date strings typed (compensated) workday
    holiday_days,     \* calendar: date strings typed legal holiday
    \* ---- state of the run ----
    pc,
    qualified_df,     \* filter_employees(employee_df)
    qualified_employees,
    start_date,
    end_date,
    work_dates,
    day_idx,
    name_idx,
    cell,             \* locals of the last loop iteration
    statistics_data,
    summary_data,
    summary_rows,
    \* ---- arguments and results of the pure functions ----
    periods,          \* merge_datetime_periods: argument
    merged,           \* merge_datetime_periods(periods)
    remerged,         \* merge_datetime_periods(merged)
    date_time_str,    \* parse_datetime_str: argument
    is_end_time,      \* parse_datetime_str: argument
    parsed,           \* parse_datetime_str(date_time_str, is_end_time)
    date_obj,         \* is_workday_from_calendar: argument
    is_workday,       \* is_workday_from_calendar(date_obj, ...)
    absence_record,   \* process_absence_record: argument record
    record_date,      \* process_absence_record: argument target_date
    record_period     \* process_absence_record(absence_record, ...)

inputVars == <<employee_df, kaoqin_df, xiujia_df, waichu_df, chuchai_df,
               linshika_df, work_days, holiday_days>>
runVars   == <<pc, qualified_df, qualified_employees, start_date, end_date,
               work_dates,
               day_idx, name_idx, cell, statistics_data, summary_data,
               summary_rows>>
mergeVars == <<periods, merged, remerged>>
parseVars == <<date_time_str, is_end_time, parsed>>
calVars   == <<date_obj, is_workday>>
recordVars == <<absence_record, record_date, record_period>>
vars      == <<inputVars, runVars, mergeVars, parseVars, calVars, recordVars>>

-----------------------------------------------------------------------------
(* Dates and datetimes (datetime.date / datetime.datetime as the code uses  *)
(* them).                                                                   *)

EpochOrdinal == 739252          \* date(2025, 1, 1).toordinal()

IsLeap(y) == (y % 4 = 0) /\ ((y % 100 # 0) \/ (y % 400 = 0))

DaysInMonth(y, m) ==
    IF m = 2 THEN (IF IsLeap(y) THEN 29 ELSE 28)
    ELSE IF m \in {4, 6, 9, 11} THEN 30 ELSE 31

RECURSIVE DaysBeforeMonth(_, _)
DaysBeforeMonth(y, m) ==
    IF m <= 1 THEN 0 ELSE DaysBeforeMonth(y, m - 1) + DaysInMonth(y, m - 1)

\* strptime(s, '%Y-%m-%d') succeeds on the text y-m-d
ValidDate(ymd) ==
    /\ ymd[1] >= 1 /\ ymd[1] <= 9999
    /\ ymd[2] >= 1 /\ ymd[2] <= 12
    /\ ymd[3] >= 1 /\ ymd[3] <= DaysInMonth(ymd[1], ymd[2])

\* the date object of a valid date string
ToDate(ymd) ==
    LET y1 == ymd[1] - 1
    IN  (y1 * 365 + (y1 \div 4) - (y1 \div 100) + (y1 \div 400)
          + DaysBeforeMonth(ymd[1], ymd[2]) + ymd[3]) - EpochOrdinal

\* date_obj.weekday(): Monday is 0
Weekday(d) == (d + EpochOrdinal + 6) % 7

\* datetime of a date at h:m:s
At(d, h, mi, s) == d * 86400 + h * 3600 + mi * 60 + s

\* dt.date()
DateOf(t) == t \div 86400

\* second of the day of dt
TimeOf(t) == t % 86400

Min(a, b) == IF a < b THEN a ELSE b
Max(a, b) == IF a > b THEN a ELSE b

-----------------------------------------------------------------------------
(* parse_datetime_str.  A time expression is the sequence of its            *)
(* whitespace-separated parts (what str.split() returns); a part is         *)
(*   [k |-> "ymd", a, b, c]  text of the shape  a-b-c   (digits)            *)
(*   [k |-> "hm",  a, b]     text of the shape  a:b     (digits)            *)
(*   [k |-> "hms", a, b, c]  text of the shape  a:b:c   (digits)            *)
(*   [k |-> "shangwu"]       text containing the morning marker             *)
(*   [k |-> "xiawu"]         text containing the afternoon marker           *)
(*   [k |-> "text"]          any other text                                 *)
(* Unused fields are 0.                                                     *)

Part(k, a, b, c) == [k |-> k, a |-> a, b |-> b, c |-> c]

ParseError == [ok |-> FALSE, t |-> 0]
Parsed(t)  == [ok |-> TRUE, t |-> t]

\* strptime(part, '%Y-%m-%d') succeeds
IsDatePart(p) == p.k = "ymd" /\ ValidDate(<<p.a, p.b, p.c>>)

\* strptime(part, '%H:%M') succeeds
IsTimePart(p) == p.k = "hm" /\ p.a >= 0 /\ p.a <= 23 /\ p.b >= 0 /\ p.b <= 59

\* the default time is 09:00 whatever the flag
default_time_start_only(end) == 9 * 3600

\* line 108: default_time, as a second of the day
default_time(end) == IF end THEN 18 * 3600 ELSE 9 * 3600

\* lines 112-125: the time a marker stands for
marker_time(k, end) ==
    IF k = "shangwu" THEN (IF end THEN 12 * 3600 ELSE 9 * 3600)
    ELSE (IF end THEN 18 * 3600 ELSE 13 * 3600)

\* lines 106-128, once the date part parsed as the date d
ParseTime(d, str, end) ==
    IF Len(str) = 1
    THEN Parsed(At(d, 0, 0, default_time(end)))
    ELSE IF str[2].k \in {"shangwu", "xiawu"}
    THEN Parsed(At(d, 0, 0, marker_time(str[2].k, end)))
    ELSE IF IsTimePart(str[2])
    THEN Parsed(At(d, str[2].a, str[2].b, 0))              \* line 128
    ELSE ParseError

\* line 94 succeeds exactly on a valid date and a valid HH:MM and returns
\* what line 128 returns for them
parse_datetime_str(str, end) ==
    IF Len(str) = 0
    THEN ParseError                  \* parts[0]: IndexError, line 130
    ELSE IF ~IsDatePart(str[1])
    THEN ParseError                  \* lines 94 and 104
    ELSE ParseTime(ToDate(<<str[1].a, str[1].b, str[1].c>>), str, end)

-----------------------------------------------------------------------------
(* IntervalMerger: merge_two_datetime_periods, merge_datetime_periods,      *)
(* calculate_datetime_minutes.  A period is <<start, end>>; None is <<>>.   *)

None == <<>>

\* touching periods are not folded
merge_two_datetime_periods_strict(period1, period2) ==
    IF period1[2] <= period2[1] \/ period2[2] <= period1[1]
    THEN None
    ELSE <<Min(period1[1], period2[1]), Max(period1[2], period2[2])>>

\* the overlap test is missing
merge_two_datetime_periods_always(period1, period2) ==
    <<Min(period1[1], period2[1]), Max(period1[2], period2[2])>>

merge_two_datetime_periods(period1, period2) ==
    IF period1[2] < period2[1] \/ period2[2] < period1[1]
    THEN None
    ELSE <<Min(period1[1], period2[1]), Max(period1[2], period2[2])>>

\* sorted(periods, key=lambda x: x[0]): stable, by start only
RECURSIVE InsertByStart(_, _)
InsertByStart(sorted, p) ==
    IF sorted = <<>> THEN <<p>>
    ELSE IF sorted[Len(sorted)][1] <= p[1] THEN Append(sorted, p)
    ELSE Append(InsertByStart(SubSeq(sorted, 1, Len(sorted) - 1), p),
                sorted[Len(sorted)])

RECURSIVE SortByStart(_)
SortByStart(ps) ==
    IF ps = <<>> THEN <<>>
    ELSE InsertByStart(SortByStart(SubSeq(ps, 1, Len(ps) - 1)), ps[Len(ps)])

\* the sweep with the index advanced after a fold as well
RECURSIVE MergeSweepAdvancing(_, _)
MergeSweepAdvancing(sorted_periods, i) ==
    IF i >= Len(sorted_periods) THEN sorted_periods
    ELSE LET result == merge_two_datetime_periods(sorted_periods[i],
                                                  sorted_periods[i + 1])
         IN  IF result # None
             THEN MergeSweepAdvancing(
                      SubSeq(sorted_periods, 1, i - 1) \o <<result>>
                        \o SubSeq(sorted_periods, i + 2, Len(sorted_periods)),
                      i + 1)
             ELSE MergeSweepAdvancing(sorted_periods, i + 1)

\* the while loop of lines 260-267 (i is the 1-based index)
RECURSIVE MergeSweep(_, _)
MergeSweep(sorted_periods, i) ==
    IF i >= Len(sorted_periods) THEN sorted_periods
    ELSE LET result == merge_two_datetime_periods(sorted_periods[i],
                                                  sorted_periods[i + 1])
         IN  IF result # None
             THEN MergeSweep(
                      SubSeq(sorted_periods, 1, i - 1) \o <<result>>
                        \o SubSeq(sorted_periods, i + 2, Len(sorted_periods)),
                      i)
             ELSE MergeSweep(sorted_periods, i + 1)

merge_datetime_periods(ps) ==
    IF ps = <<>> THEN <<>> ELSE MergeSweep(SortByStart(ps), 1)

\* int(x / 60): truncation toward zero
TruncDiv60(x) == IF x >= 0 THEN x \div 60 ELSE -((-x) \div 60)

RECURSIVE calculate_datetime_minutes(_)
calculate_datetime_minutes(ps) ==
    IF ps = <<>> THEN 0
    ELSE calculate_datetime_minutes(SubSeq(ps, 1, Len(ps) - 1))
           + TruncDiv60(ps[Len(ps)][2] - ps[Len(ps)][1])

-----------------------------------------------------------------------------
(* AbsenceResolver and LunchAdjuster.  An absence row is                    *)
(*   [name, status, type, start, end]   (start and end: time expressions)   *)
(* and an hour count is held as the seconds it stands for.                  *)

NineHours     == 32400          \* 9.0
BaseRequired  == 31500          \* 8.75

CountedStatus == {"yishengxiao", "weishengxiao"}

\* a record that fails to parse taken as the whole window
Intersection_failure_as_full_day(start_time, end_time, target_date, workday_start, workday_end) ==
    IF ~start_time.ok \/ ~end_time.ok THEN <<workday_start, workday_end>>
    ELSE IF DateOf(end_time.t) < target_date
              \/ DateOf(start_time.t) > target_date THEN None
    ELSE IF Max(start_time.t, workday_start) >= Min(end_time.t, workday_end)
    THEN None
    ELSE <<Max(start_time.t, workday_start), Min(end_time.t, workday_end)>>

\* an intersection of no length kept
Intersection_keeping_empty(start_time, end_time, target_date, workday_start, workday_end) ==
    IF ~start_time.ok \/ ~end_time.ok THEN None
    ELSE IF DateOf(end_time.t) < target_date
              \/ DateOf(start_time.t) > target_date THEN None
    ELSE IF Max(start_time.t, workday_start) > Min(end_time.t, workday_end)
    THEN None
    ELSE <<Max(start_time.t, workday_start), Min(end_time.t, workday_end)>>

\* the intersection taken with the record's own end instead of the window's
Intersection_unclipped(start_time, end_time, target_date, workday_start, workday_end) ==
    IF ~start_time.ok \/ ~end_time.ok THEN None
    ELSE IF DateOf(end_time.t) < target_date
              \/ DateOf(start_time.t) > target_date THEN None
    ELSE IF Max(start_time.t, workday_start) >= end_time.t THEN None
    ELSE <<Max(start_time.t, workday_start), end_time.t>>

\* lines 307-324 on the two parse results
Intersection(start_time, end_time, target_date, workday_start, workday_end) ==
    IF ~start_time.ok \/ ~end_time.ok THEN None
    ELSE IF DateOf(end_time.t) < target_date
              \/ DateOf(start_time.t) > target_date THEN None
    ELSE IF Max(start_time.t, workday_start) >= Min(end_time.t, workday_end)
    THEN None
    ELSE <<Max(start_time.t, workday_start), Min(end_time.t, workday_end)>>

process_absence_record(record, target_date, workday_start, workday_end) ==
    Intersection(parse_datetime_str(record.start, FALSE),
                 parse_datetime_str(record.end, TRUE),
                 target_date, workday_start, workday_end)

\* the rows of the employee whatever their status
RECURSIVE EmployeeRecords_any_status(_, _)
EmployeeRecords_any_status(df, name) ==
    IF df = <<>> THEN <<>>
    ELSE LET rest == EmployeeRecords_any_status(SubSeq(df, 1, Len(df) - 1),
                                                name)
             r    == df[Len(df)]
         IN  IF r.name = name THEN Append(rest, r) ELSE rest

\* df[(df.name == name) & df.status.isin(...)], rows in table order
RECURSIVE EmployeeRecords(_, _)
EmployeeRecords(df, name) ==
    IF df = <<>> THEN <<>>
    ELSE LET rest == EmployeeRecords(SubSeq(df, 1, Len(df) - 1), name)
             r    == df[Len(df)]
         IN  IF r.name = name /\ r.status \in CountedStatus
             THEN Append(rest, r) ELSE rest

\* lines 362-363
AppendPeriod(all_time_periods, time_period) ==
    IF time_period # None THEN Append(all_time_periods, time_period)
    ELSE all_time_periods

\* the surviving clipped periods of one table, in row order
RECURSIVE TablePeriods(_, _)
TablePeriods(records, day) ==
    IF records = <<>> THEN <<>>
    ELSE AppendPeriod(TablePeriods(SubSeq(records, 1, Len(records) - 1), day),
                      process_absence_record(records[Len(records)], day,
                                             At(day, 9, 0, 0),
                                             At(day, 18, 0, 0)))

\* all_time_periods of get_raw_absence_hours; absence_dfs is the list of
\* the three tables
RECURSIVE AllTimePeriods(_, _, _)
AllTimePeriods(name, day, absence_dfs) ==
    IF absence_dfs = <<>> THEN <<>>
    ELSE AllTimePeriods(name, day, SubSeq(absence_dfs, 1, Len(absence_dfs) - 1))
           \o TablePeriods(EmployeeRecords(absence_dfs[Len(absence_dfs)], name),
                           day)

\* lines 372-377 on the merged periods
RawResult(merged_periods) ==
    [hours   |-> Min(calculate_datetime_minutes(merged_periods) * 60,
                     NineHours),
     periods |-> merged_periods]

\* returns [hours, periods]; lines 365-377 on all_time_periods
get_raw_absence_hours(name, day, absence_dfs) ==
    RawResult(merge_datetime_periods(AllTimePeriods(name, day, absence_dfs)))

RECURSIVE DropPeriod(_, _)
DropPeriod(ps, p) ==
    IF ps = <<>> THEN <<>>
    ELSE LET rest == DropPeriod(SubSeq(ps, 1, Len(ps) - 1), p)
         IN  IF ps[Len(ps)] = p THEN rest ELSE Append(rest, ps[Len(ps)])

\* a lunch break of two hours
LunchBreak_until_two(merged_periods) ==
    <<At(DateOf(merged_periods[1][1]), 12, 0, 0),
      At(DateOf(merged_periods[1][1]), 14, 0, 0)>>

\* the lunch break of the date of the first period (lines 395-399)
LunchBreak(merged_periods) ==
    <<At(DateOf(merged_periods[1][1]), 12, 0, 0),
      At(DateOf(merged_periods[1][1]), 13, 0, 0)>>

\* the lunch period is not taken out again
WithoutLunch_keeping(all_periods, lunch) ==
    Min(calculate_datetime_minutes(all_periods) * 60, NineHours)

\* the lunch hour is deducted from the total
WithoutLunch_deducted(all_periods, lunch) ==
    Min(Max(0, calculate_datetime_minutes(all_periods) - 60) * 60, NineHours)

\* lines 405-411 on the re-merged periods
WithoutLunch(all_periods, lunch) ==
    Min(calculate_datetime_minutes(DropPeriod(all_periods, lunch)) * 60,
        NineHours)

get_actual_absence_hours(merged_periods) ==
    IF merged_periods = <<>> THEN 0
    ELSE WithoutLunch(
             merge_datetime_periods(
                 Append(merged_periods, LunchBreak(merged_periods))),
             LunchBreak(merged_periods))

\* lines 211-221: the entry "type[HH:MM-HH:MM]" of a surviving record
AppendDescription(all_descriptions, record, time_period) ==
    IF time_period # None
    THEN Append(all_descriptions,
                [type  |-> record.type,
                 start |-> <<TimeOf(time_period[1]) \div 3600,
                             (TimeOf(time_period[1]) % 3600) \div 60>>,
                 end   |-> <<TimeOf(time_period[2]) \div 3600,
                             (TimeOf(time_period[2]) % 3600) \div 60>>])
    ELSE all_descriptions

\* one entry per surviving record of one table
RECURSIVE TableDescriptions(_, _)
TableDescriptions(records, day) ==
    IF records = <<>> THEN <<>>
    ELSE AppendDescription(
             TableDescriptions(SubSeq(records, 1, Len(records) - 1), day),
             records[Len(records)],
             process_absence_record(records[Len(records)], day,
                                    At(day, 9, 0, 0), At(day, 18, 0, 0)))

\* the entries of the later tables put first
RECURSIVE get_absence_description_last_table_first(_, _, _)
get_absence_description_last_table_first(name, day, absence_dfs) ==
    IF absence_dfs = <<>> THEN <<>>
    ELSE TableDescriptions(
             EmployeeRecords(absence_dfs[Len(absence_dfs)], name), day)
           \o get_absence_description_last_table_first(name, day,
                  SubSeq(absence_dfs, 1, Len(absence_dfs) - 1))

\* the text is the sequence of its '; '-joined entries ('' is <<>>)
RECURSIVE get_absence_description(_, _, _)
get_absence_description(name, day, absence_dfs) ==
    IF absence_dfs = <<>> THEN <<>>
    ELSE get_absence_description(name, day,
                                 SubSeq(absence_dfs, 1, Len(absence_dfs) - 1))
           \o TableDescriptions(
                  EmployeeRecords(absence_dfs[Len(absence_dfs)], name), day)

\* lines 435-443 on the result of get_raw_absence_hours
AbsenceResult(raw, text) ==
    [raw     |-> raw.hours,
     periods |-> raw.periods,
     actual  |-> get_actual_absence_hours(raw.periods),
     text    |-> text]

\* returns [raw, actual, periods, text]
get_absence_hours(name, day, xiujia, waichu, chuchai) ==
    AbsenceResult(get_raw_absence_hours(name, day, <<xiujia, waichu, chuchai>>),
                  get_absence_description(name, day,
                                          <<xiujia, waichu, chuchai>>))

-----------------------------------------------------------------------------
(* CalendarPolicy.                                                          *)

\* date_obj.strftime('%Y-%m-%d'): the date string of a date object
RECURSIVE MonthOf(_, _, _)
MonthOf(y, m, n) ==
    IF n <= DaysInMonth(y, m) THEN <<y, m, n>>
    ELSE MonthOf(y, m + 1, n - DaysInMonth(y, m))

RECURSIVE YearOf(_, _)
YearOf(y, n) ==
    LET len == IF IsLeap(y) THEN 366 ELSE 365
    IN  IF n <= len THEN MonthOf(y, 1, n) ELSE YearOf(y + 1, n - len)

DateStr(d) == YearOf(2025, d + 1)

\* the compensated-workday set consulted first
is_workday_from_calendar_workday_first(d, workdays, holidays) ==
    IF DateStr(d) \in workdays THEN TRUE
    ELSE IF DateStr(d) \in holidays THEN FALSE
    ELSE Weekday(d) < 5

is_workday_from_calendar(d, workdays, holidays) ==
    IF DateStr(d) \in holidays THEN FALSE
    ELSE IF DateStr(d) \in workdays THEN TRUE
    ELSE Weekday(d) < 5

-----------------------------------------------------------------------------
(* filter_employees.  A roster row is [name, dept, type, location, grade];  *)
(* the grade label is the sequence of its characters, NaN a missing cell.   *)

NaN == <<"NaN">>

Digits == {"0", "1", "2", "3", "4", "5", "6", "7", "8", "9"}

DigitVal(c) ==
    CASE c = "0" -> 0 [] c = "1" -> 1 [] c = "2" -> 2 [] c = "3" -> 3
      [] c = "4" -> 4 [] c = "5" -> 5 [] c = "6" -> 6 [] c = "7" -> 7
      [] c = "8" -> 8 [] c = "9" -> 9

\* first index >= i that is not whitespace
RECURSIVE SkipSpaces(_, _)
SkipSpaces(s, i) ==
    IF i <= Len(s) /\ s[i] = " " THEN SkipSpaces(s, i + 1) ELSE i

\* int() of the longest run of digits starting at i, acc the value so far
RECURSIVE DigitRun(_, _, _)
DigitRun(s, i, acc) ==
    IF i <= Len(s) /\ s[i] \in Digits
    THEN DigitRun(s, i + 1, acc * 10 + DigitVal(s[i]))
    ELSE acc

\* re.search(r'Grade\s*(\d+)', s) from position i on: the number, or -1
RECURSIVE SearchGrade(_, _)
SearchGrade(s, i) ==
    IF i + 4 > Len(s) THEN -1
    ELSE IF SubSeq(s, i, i + 4) = <<"G", "r", "a", "d", "e">>
              /\ SkipSpaces(s, i + 5) <= Len(s)
              /\ s[SkipSpaces(s, i + 5)] \in Digits
         THEN DigitRun(s, SkipSpaces(s, i + 5), 0)
         ELSE SearchGrade(s, i + 1)

\* a label without a grade number read as grade 0
extract_grade_default_zero(grade_str) ==
    IF grade_str = NaN \/ grade_str = <<>> THEN 0
    ELSE IF SearchGrade(grade_str, 1) >= 0 THEN SearchGrade(grade_str, 1)
    ELSE 0

extract_grade(grade_str) ==
    IF grade_str = NaN \/ grade_str = <<>> THEN 999
    ELSE IF SearchGrade(grade_str, 1) >= 0 THEN SearchGrade(grade_str, 1)
    ELSE 999

GradeCeiling == 13

RECURSIVE filter_employees(_)
filter_employees(df) ==
    IF df = <<>> THEN <<>>
    ELSE LET rest == filter_employees(SubSeq(df, 1, Len(df) - 1))
             r    == df[Len(df)]
         IN  IF r.type = "quanzhi" /\ r.location = "Shanghai"
                  /\ extract_grade(r.grade) < GradeCeiling
             THEN Append(rest, r) ELSE rest

\* list(employee_info.keys()): the names, each once, in first-row order
RECURSIVE EmployeeNames(_)
EmployeeNames(df) ==
    IF df = <<>> THEN <<>>
    ELSE LET rest == EmployeeNames(SubSeq(df, 1, Len(df) - 1))
             n    == df[Len(df)].name
         IN  IF \E i \in 1..Len(rest) : rest[i] = n THEN rest
             ELSE Append(rest, n)

\* employee_info.get(name, ''): the department of the last row of the name
EmployeeDept(df, name) ==
    LET rows == {i \in 1..Len(df) : df[i].name = name}
    IN  IF rows = {} THEN ""
        ELSE df[CHOOSE i \in rows : \A j \in rows : j <= i].dept

-----------------------------------------------------------------------------
(* AttendanceClassifier and the body of the loop of analyze_attendance.     *)
(* A badge event is [name, t]; t = NaT when the timestamp does not parse.   *)

NaT == -1

\* kaoqin_df after to_datetime(errors='coerce') and dropna
RECURSIVE DropNaT(_)
DropNaT(df) ==
    IF df = <<>> THEN <<>>
    ELSE LET rest == DropNaT(SubSeq(df, 1, Len(df) - 1))
         IN  IF df[Len(df)].t = NaT THEN rest ELSE Append(rest, df[Len(df)])

SetMin(S) == CHOOSE x \in S : \A y \in S : x <= y
SetMax(S) == CHOOSE x \in S : \A y \in S : y <= x

\* sorted(S) of a set of integers
RECURSIVE SortedSeq(_)
SortedSeq(S) ==
    IF S = {} THEN <<>> ELSE <<SetMin(S)>> \o SortedSeq(S \ {SetMin(S)})

\* round(x, 2) of an hour count: hundredths of an hour, half to even
Round2(secs) ==
    LET q == secs \div 36
        r == secs % 36
    IN  IF r < 18 THEN q
        ELSE IF r > 18 THEN q + 1
        ELSE IF q % 2 = 0 THEN q ELSE q + 1

\* max(0, round(x * 60)) of an hour count x
RoundMinutes(secs) ==
    IF secs <= 0 THEN 0
    ELSE LET q == secs \div 60
             r == secs % 60
         IN  IF r < 30 THEN q
             ELSE IF r > 30 THEN q + 1
             ELSE IF q % 2 = 0 THEN q ELSE q + 1

\* the insufficient-attendance rule tested before the single-punch rule
Status_insufficient_before_single(record_count, work_hours, required_hours) ==
    IF record_count = 0 /\ required_hours > 0 THEN "weidaka"
    ELSE IF work_hours < required_hours THEN "chuqinbuzu"
    ELSE IF record_count = 1 /\ work_hours < required_hours THEN "loudaka"
    ELSE "zhengchang"

\* rule 1 tested without the required-hours condition
Status_no_required_test(record_count, work_hours, required_hours) ==
    IF record_count = 0 THEN "weidaka"
    ELSE IF record_count = 1 /\ work_hours < required_hours THEN "loudaka"
    ELSE IF work_hours < required_hours THEN "chuqinbuzu"
    ELSE "zhengchang"

\* lines 515-523
Status(record_count, work_hours, required_hours) ==
    IF record_count = 0 /\ required_hours > 0 THEN "weidaka"
    ELSE IF record_count = 1 /\ work_hours < required_hours THEN "loudaka"
    ELSE IF work_hours < required_hours THEN "chuqinbuzu"
    ELSE "zhengchang"

\* lines 485-497: work_hours of the sorted badge times of the day
WorkHours(times) == IF times # {} THEN SetMax(times) - SetMin(times) ELSE 0

\* lines 511-526 on the worked and the absence hours
Classified(name, day, record_count, times, work_hours, absence, has_temp_card) ==
    [name           |-> name,
     day            |-> day,
     record_count   |-> record_count,
     first_in       |-> IF times # {} THEN TimeOf(SetMin(times)) ELSE -1,
     last_out       |-> IF times # {} THEN TimeOf(SetMax(times)) ELSE -1,
     work_hours     |-> work_hours,
     merged_periods |-> absence.periods,
     raw_absence_hours    |-> absence.raw,
     actual_absence_hours |-> absence.actual,
     text           |-> absence.text,
     required_hours |-> Max(0, BaseRequired - absence.actual),
     status         |-> Status(record_count, work_hours,
                               Max(0, BaseRequired - absence.actual)),
     actual_absence_minutes |->
         RoundMinutes(NineHours - absence.actual - work_hours),
     has_temp_card  |-> has_temp_card]

\* day_df of line 483, as the badge times of the rows
DayTimes(name, day, kaoqin) ==
    {kaoqin[i].t : i \in {j \in 1..Len(kaoqin) :
        DateOf(kaoqin[j].t) = day /\ kaoqin[j].name = name}}

\* the locals of one iteration of the loop (lines 481-535)
Cell(name, day, kaoqin, xiujia, waichu, chuchai, linshika) ==
    Classified(name, day,
               Cardinality({i \in 1..Len(kaoqin) :
                   DateOf(kaoqin[i].t) = day /\ kaoqin[i].name = name}),
               DayTimes(name, day, kaoqin),
               WorkHours(DayTimes(name, day, kaoqin)),
               get_absence_hours(name, day, xiujia, waichu, chuchai),
               \E i \in 1..Len(linshika) :
                   linshika[i].name = name /\ linshika[i].day = day)

\* the row appended to statistics_data (lines 538-554)
StatisticsRow(c, dept) ==
    [day            |-> DateStr(c.day),
     name           |-> c.name,
     dept           |-> dept,
     first_in       |-> c.first_in,
     last_out       |-> c.last_out,
     work_hours     |-> Round2(c.work_hours),
     raw_absence_hours    |-> Round2(c.raw_absence_hours),
     actual_absence_hours |-> Round2(c.actual_absence_hours),
     actual_absence_minutes |-> c.actual_absence_minutes,
     required_hours |-> Round2(c.required_hours),
     text           |-> c.text,
     status         |-> c.status,
     temp_card      |-> c.has_temp_card]

ExceptionStatus == {"weidaka", "loudaka", "chuqinbuzu"}

\* the count set to 1 at every exception instead of incremented
CountUp_once(summary, status, name) ==
    [s \in ExceptionStatus |->
        IF s # status THEN summary[s]
        ELSE [n \in DOMAIN summary[s] \cup {name} |->
                 IF n # name THEN summary[s][n] ELSE 1]]

\* summary_data[status][name] += 1 (a missing key counts 0)
CountUp(summary, status, name) ==
    [s \in ExceptionStatus |->
        IF s # status THEN summary[s]
        ELSE [n \in DOMAIN summary[s] \cup {name} |->
                 IF n # name THEN summary[s][n]
                 ELSE IF name \in DOMAIN summary[s] THEN summary[s][name] + 1
                 ELSE 1]]

EmptyFn == [n \in {} |-> 0]

-----------------------------------------------------------------------------
(* The run: main() up to the loop, one loop iteration, save_reports.        *)

NoCell ==
    [name |-> "", day |-> 0, record_count |-> 0, first_in |-> -1,
     last_out |-> -1, work_hours |-> 0, merged_periods |-> <<>>,
     raw_absence_hours |-> 0, actual_absence_hours |-> 0, text |-> <<>>,
     required_hours |-> 0, status |-> "", actual_absence_minutes |-> 0,
     has_temp_card |-> FALSE]

EmptySummary == [s \in ExceptionStatus |-> EmptyFn]

\* the names in ascending order, as sorted() compares them
NameOrder == <<"A", "B", "C", "X">>

NameRank(n) == CHOOSE i \in 1..Len(NameOrder) : NameOrder[i] = n

RECURSIVE SortedNames(_)
SortedNames(S) ==
    IF S = {} THEN <<>>
    ELSE LET n == CHOOSE x \in S : \A y \in S : NameRank(x) <= NameRank(y)
         IN  <<n>> \o SortedNames(S \ {n})

Count(summary, status, name) ==
    IF name \in DOMAIN summary[status] THEN summary[status][name] ELSE 0

SummaryRow(summary, employee) ==
    [name       |-> employee,
     weidaka    |-> Count(summary, "weidaka", employee),
     loudaka    |-> Count(summary, "loudaka", employee),
     chuqinbuzu |-> Count(summary, "chuqinbuzu", employee),
     total      |-> Count(summary, "weidaka", employee)
                      + Count(summary, "loudaka", employee)
                      + Count(summary, "chuqinbuzu", employee)]

\* a row put in front of the rows of equal total
RECURSIVE InsertByTotal_before_ties(_, _)
InsertByTotal_before_ties(sorted, row) ==
    IF sorted = <<>> THEN <<row>>
    ELSE IF sorted[Len(sorted)].total > row.total THEN Append(sorted, row)
    ELSE Append(InsertByTotal_before_ties(SubSeq(sorted, 1, Len(sorted) - 1),
                                          row),
                sorted[Len(sorted)])

\* summary_rows.sort(key=total, reverse=True): stable, descending
RECURSIVE InsertByTotal(_, _)
InsertByTotal(sorted, row) ==
    IF sorted = <<>> THEN <<row>>
    ELSE IF sorted[Len(sorted)].total >= row.total THEN Append(sorted, row)
    ELSE Append(InsertByTotal(SubSeq(sorted, 1, Len(sorted) - 1), row),
                sorted[Len(sorted)])

RECURSIVE SortByTotal(_)
SortByTotal(rows) ==
    IF rows = <<>> THEN <<>>
    ELSE InsertByTotal(SortByTotal(SubSeq(rows, 1, Len(rows) - 1)),
                       rows[Len(rows)])

SummaryRows(summary) ==
    LET all_employees == SortedNames(UNION {DOMAIN summary[s] :
                                            s \in ExceptionStatus})
    IN  SortByTotal([i \in 1..Len(all_employees) |->
                        SummaryRow(summary, all_employees[i])])

\* all_dates: the dates that carry the (valid) badge event of anyone
EventDates(kaoqin) == {DateOf(kaoqin[i].t) : i \in 1..Len(kaoqin)}

\* the event dates only, workday or not
WorkDates_unfiltered(kaoqin, workdays, holidays) ==
    SortedSeq(EventDates(kaoqin))

\* lines 459-463: work_dates
WorkDates(kaoqin, workdays, holidays) ==
    SortedSeq({d \in EventDates(kaoqin) :
                  is_workday_from_calendar(d, workdays, holidays)})

\* main(), lines 804-879, and analyze_attendance up to the loop
MainLoad ==
    /\ pc = "main"
    /\ LET kaoqin    == DropNaT(kaoqin_df)
           qualified == filter_employees(employee_df)
       IN  IF kaoqin = <<>>
           THEN \* line 865: no valid badge event, main returns
                /\ pc' = "exit"
                /\ UNCHANGED <<qualified_employees, start_date, end_date,
                               work_dates>>
           ELSE IF employee_df = <<>>
           THEN \* filter_employees returns a frame without columns:
                \* line 455 raises KeyError
                /\ pc' = "crashed"
                /\ start_date' = SetMin(EventDates(kaoqin))
                /\ end_date' = SetMax(EventDates(kaoqin))
                /\ UNCHANGED <<qualified_employees, work_dates>>
           ELSE /\ qualified_employees' = EmployeeNames(qualified)
                /\ start_date' = SetMin(EventDates(kaoqin))
                /\ end_date' = SetMax(EventDates(kaoqin))
                /\ work_dates' = WorkDates(kaoqin, work_days, holiday_days)
                /\ pc' = IF work_dates' = <<>> \/ qualified_employees' = <<>>
                         THEN "report" ELSE "loop"
    /\ qualified_df' = filter_employees(employee_df)
    /\ day_idx' = 1
    /\ name_idx' = 1
    /\ UNCHANGED <<cell, statistics_data, summary_data, summary_rows>>
    /\ UNCHANGED recordVars
    /\ UNCHANGED <<inputVars, mergeVars, parseVars, calVars>>

\* one iteration of the loop of lines 478-560
AnalyzeCell ==
    /\ pc = "loop"
    /\ cell' = Cell(qualified_employees[name_idx], work_dates[day_idx],
                    DropNaT(kaoqin_df), xiujia_df, waichu_df, chuchai_df,
                    linshika_df)
    /\ statistics_data' =
          Append(statistics_data,
                 StatisticsRow(cell', EmployeeDept(qualified_df,
                                                   cell'.name)))
    /\ summary_data' = IF cell'.status \in ExceptionStatus
                       THEN CountUp(summary_data, cell'.status, cell'.name)
                       ELSE summary_data
    /\ IF name_idx < Len(qualified_employees)
       THEN /\ name_idx' = name_idx + 1
            /\ UNCHANGED <<day_idx, pc>>
       ELSE /\ name_idx' = 1
            /\ day_idx' = day_idx + 1
            /\ pc' = IF day_idx < Len(work_dates) THEN "loop" ELSE "report"
    /\ UNCHANGED <<qualified_df, qualified_employees, start_date, end_date,
                   work_dates,
                   summary_rows>>
    /\ UNCHANGED recordVars
    /\ UNCHANGED <<inputVars, mergeVars, parseVars, calVars>>

\* save_reports, lines 592-710: the rows of the exception summary
SaveReports ==
    /\ pc = "report"
    /\ summary_rows' = SummaryRows(summary_data)
    /\ pc' = "exit"
    /\ UNCHANGED <<qualified_df, qualified_employees, start_date, end_date,
                   work_dates,
                   day_idx, name_idx, cell, statistics_data, summary_data>>
    /\ UNCHANGED recordVars
    /\ UNCHANGED <<inputVars, mergeVars, parseVars, calVars>>

Next == MainLoad \/ AnalyzeCell \/ SaveReports

-----------------------------------------------------------------------------
(* The pure functions applied to their arguments.                           *)

MergeOnce ==
    /\ pc = "merge"
    /\ merged' = merge_datetime_periods(periods)
    /\ pc' = "merged"
    /\ UNCHANGED <<periods, remerged>>
    /\ UNCHANGED <<qualified_df, qualified_employees, start_date, end_date,
                   work_dates,
                   day_idx, name_idx, cell, statistics_data, summary_data,
                   summary_rows>>
    /\ UNCHANGED recordVars
    /\ UNCHANGED <<inputVars, parseVars, calVars>>

MergeAgain ==
    /\ pc = "merged"
    /\ remerged' = merge_datetime_periods(merged)
    /\ pc' = "remerged"
    /\ UNCHANGED <<periods, merged>>
    /\ UNCHANGED <<qualified_df, qualified_employees, start_date, end_date,
                   work_dates,
                   day_idx, name_idx, cell, statistics_data, summary_data,
                   summary_rows>>
    /\ UNCHANGED recordVars
    /\ UNCHANGED <<inputVars, parseVars, calVars>>

NextMerge == MergeOnce \/ MergeAgain

ParseStr ==
    /\ pc = "parse"
    /\ parsed' = parse_datetime_str(date_time_str, is_end_time)
    /\ pc' = "parsed"
    /\ UNCHANGED <<date_time_str, is_end_time>>
    /\ UNCHANGED <<qualified_df, qualified_employees, start_date, end_date,
                   work_dates,
                   day_idx, name_idx, cell, statistics_data, summary_data,
                   summary_rows>>
    /\ UNCHANGED recordVars
    /\ UNCHANGED <<inputVars, mergeVars, calVars>>

NextParse == ParseStr

IsWorkday ==
    /\ pc = "calendar"
    /\ is_workday' = is_workday_from_calendar(date_obj, work_days,
                                              holiday_days)
    /\ pc' = "classified"
    /\ UNCHANGED date_obj
    /\ UNCHANGED <<qualified_df, qualified_employees, start_date, end_date,
                   work_dates,
                   day_idx, name_idx, cell, statistics_data, summary_data,
                   summary_rows>>
    /\ UNCHANGED recordVars
    /\ UNCHANGED <<inputVars, mergeVars, parseVars>>

NextCalendar == IsWorkday

\* main(), line 813: the roster handed to filter_employees
FilterEmployees ==
    /\ pc = "filter"
    /\ qualified_df' = filter_employees(employee_df)
    /\ pc' = "filtered"
    /\ UNCHANGED <<qualified_employees, start_date, end_date, work_dates,
                   day_idx, name_idx, cell, statistics_data, summary_data,
                   summary_rows>>
    /\ UNCHANGED recordVars
    /\ UNCHANGED <<inputVars, mergeVars, parseVars, calVars>>

NextRoster == FilterEmployees

\* one record handed to process_absence_record for a target date
ProcessRecord ==
    /\ pc = "record"
    /\ record_period' = process_absence_record(absence_record, record_date,
                                               At(record_date, 9, 0, 0),
                                               At(record_date, 18, 0, 0))
    /\ pc' = "processed"
    /\ UNCHANGED <<absence_record, record_date>>
    /\ UNCHANGED <<qualified_df, qualified_employees, start_date, end_date,
                   work_dates, day_idx, name_idx, cell, statistics_data,
                   summary_data, summary_rows>>
    /\ UNCHANGED <<inputVars, mergeVars, parseVars, calVars>>

NextRecord == ProcessRecord

-----------------------------------------------------------------------------
(* Bounded inputs.                                                          *)

MaxEvents    == 2       \* badge events of a run
MaxRecords   == 2       \* rows of the leave table of one employee-day
MaxPeriods   == 3       \* periods handed to merge_datetime_periods
MaxParts     == 2       \* parts of a time expression
MaxRows      == 2       \* rows of a roster handed to filter_employees
CalendarSpan == 7       \* consecutive dates handed to the calendar
RecordSpan   == 5       \* consecutive target dates of one absence record
MaxRangeEvents == 3     \* badge events of a run over a pinned date range

BoundedSeq(S, n) == UNION {[1..k -> S] : k \in 0..n}

Fri25 == ToDate(<<2025, 4, 25>>)
Sat26 == ToDate(<<2025, 4, 26>>)
Sun27 == ToDate(<<2025, 4, 27>>)
Mon28 == ToDate(<<2025, 4, 28>>)
Tue29 == ToDate(<<2025, 4, 29>>)

DatePart(y, m, d) == Part("ymd", y, m, d)
TimePart(h, mi)   == Part("hm", h, mi, 0)
Shangwu           == Part("shangwu", 0, 0, 0)
Xiawu             == Part("xiawu", 0, 0, 0)

Absence(name, status, type, start, end) ==
    [name |-> name, status |-> status, type |-> type,
     start |-> start, end |-> end]

RosterRow(name, dept, type, location, grade) ==
    [name |-> name, dept |-> dept, type |-> type, location |-> location,
     grade |-> grade]

Grade12 == <<"G", "r", "a", "d", "e", " ", "1", "2">>
Grade13 == <<"G", "r", "a", "d", "e", "1", "3">>

RowA  == RosterRow("A", "rd", "quanzhi", "Shanghai", Grade12)
RowA2 == RosterRow("A", "qa", "quanzhi", "Shanghai", Grade12)
RowB  == RosterRow("B", "rd", "quanzhi", "Shanghai", Grade12)
RowC  == RosterRow("C", "rd", "quanzhi", "Shanghai", Grade13)

IdleRun ==
    /\ qualified_df = <<>>
    /\ qualified_employees = <<>>
    /\ start_date = 0
    /\ end_date = 0
    /\ work_dates = <<>>
    /\ day_idx = 1
    /\ name_idx = 1
    /\ cell = NoCell
    /\ statistics_data = <<>>
    /\ summary_data = EmptySummary
    /\ summary_rows = <<>>

IdleInputs ==
    /\ employee_df = <<>>
    /\ kaoqin_df = <<>>
    /\ xiujia_df = <<>>
    /\ waichu_df = <<>>
    /\ chuchai_df = <<>>
    /\ linshika_df = <<>>

IdleMerge == periods = <<>> /\ merged = <<>> /\ remerged = <<>>

IdleParse ==
    date_time_str = <<>> /\ is_end_time = FALSE /\ parsed = ParseError

IdleCalendar == date_obj = 0 /\ is_workday = FALSE

IdleRecord ==
    /\ absence_record = Absence("", "", "", <<>>, <<>>)
    /\ record_date = 0
    /\ record_period = None

\* ---- a run over several employees and dates ----
RunEventTimes ==
    {At(Fri25, 9, 0, 0), At(Fri25, 18, 0, 5), At(Sun27, 10, 0, 0),
     At(Mon28, 9, 0, 0)}

RunEvents ==
    {[name |-> n, t |-> t] : n \in {"A", "C"}, t \in RunEventTimes}
      \cup {[name |-> "A", t |-> NaT]}

RunRosters ==
    {<<>>, <<RowA>>, <<RowC>>, <<RowA, RowB>>, <<RowB, RowA>>,
     <<RowA, RowC>>, <<RowA, RowA2>>}

RunCalendars ==
    {<<{}, {}>>,
     <<{<<2025, 4, 26>>}, {}>>,
     <<{<<2025, 4, 26>>}, {<<2025, 4, 26>>}>>,
     <<{}, {<<2025, 4, 28>>}>>}

FullLeaveA ==
    Absence("A", "yishengxiao", "nianjia",
            <<DatePart(2025, 4, 25)>>, <<DatePart(2025, 4, 28)>>)
FridayLeaveA ==
    Absence("A", "weishengxiao", "nianjia",
            <<DatePart(2025, 4, 25)>>, <<DatePart(2025, 4, 25)>>)
MorningOutB ==
    Absence("B", "weishengxiao", "waichu",
            <<DatePart(2025, 4, 25), Shangwu>>,
            <<DatePart(2025, 4, 25), Shangwu>>)

\* <<xiujia, waichu, chuchai, linshika>>
RunAbsences ==
    {<<<<>>, <<>>, <<>>, <<>>>>,
     <<<<FullLeaveA>>, <<>>, <<>>, <<[name |-> "A", day |-> Fri25]>>>>,
     <<<<>>, <<MorningOutB>>, <<>>, <<>>>>,
     <<<<FridayLeaveA>>, <<>>, <<>>, <<>>>>}

Init ==
    /\ pc = "main"
    /\ employee_df \in RunRosters
    /\ kaoqin_df \in BoundedSeq(RunEvents, MaxEvents)
    /\ \E cal \in RunCalendars :
          work_days = cal[1] /\ holiday_days = cal[2]
    /\ \E a \in RunAbsences :
          /\ xiujia_df = a[1]
          /\ waichu_df = a[2]
          /\ chuchai_df = a[3]
          /\ linshika_df = a[4]
    /\ IdleRun /\ IdleMerge /\ IdleParse /\ IdleCalendar
    /\ IdleRecord

Spec == Init /\ [][Next]_vars

\* ---- one employee-day (A on Monday 2025-04-28) with many absences ----
\* <<start, end>> of the leaves of A on the day: 09:00-12:00, 09:00-18:00,
\* 12:15-12:45, 12:15-18:00, 13:00-18:00, 14:00-18:00, 12:00-13:00 and the
\* inverted 14:00-11:00
CellIntervals ==
    {<<<<DatePart(2025, 4, 28)>>, <<DatePart(2025, 4, 28), Shangwu>>>>,
     <<<<DatePart(2025, 4, 28)>>, <<DatePart(2025, 4, 28)>>>>,
     <<<<DatePart(2025, 4, 28), TimePart(12, 15)>>,
       <<DatePart(2025, 4, 28), TimePart(12, 45)>>>>,
     <<<<DatePart(2025, 4, 28), TimePart(12, 15)>>,
       <<DatePart(2025, 4, 28)>>>>,
     <<<<DatePart(2025, 4, 28), Xiawu>>, <<DatePart(2025, 4, 28)>>>>,
     <<<<DatePart(2025, 4, 28), TimePart(14, 0)>>,
       <<DatePart(2025, 4, 28)>>>>,
     <<<<DatePart(2025, 4, 28), TimePart(12, 0)>>,
       <<DatePart(2025, 4, 28), TimePart(13, 0)>>>>,
     <<<<DatePart(2025, 4, 28), TimePart(14, 0)>>,
       <<DatePart(2025, 4, 28), TimePart(11, 0)>>>>}

CellRecords ==
    {Absence("A", "yishengxiao", "nianjia", p[1], p[2]) :
        p \in CellIntervals}
      \cup
    {Absence("A", "yishengxiao", "chuchai",
             <<DatePart(2025, 4, 25), Xiawu>>,
             <<DatePart(2025, 4, 29), Shangwu>>),
     Absence("B", "yishengxiao", "nianjia",
             <<DatePart(2025, 4, 28)>>, <<DatePart(2025, 4, 28)>>),
     Absence("A", "yichexiao", "nianjia",
             <<DatePart(2025, 4, 28)>>, <<DatePart(2025, 4, 28)>>),
     Absence("A", "weishengxiao", "shijia",
             <<DatePart(2025, 2, 30)>>, <<DatePart(2025, 4, 28)>>),
     Absence("A", "weishengxiao", "shijia",
             <<DatePart(2025, 4, 28)>>,
             <<DatePart(2025, 4, 28), TimePart(25, 0)>>)}

OutOfOffice ==
    Absence("A", "weishengxiao", "waichu",
            <<DatePart(2025, 4, 28), TimePart(10, 0)>>,
            <<DatePart(2025, 4, 28), TimePart(10, 30)>>)

\* the badge events of A on the day
CellEvents ==
    {<<>>,
     <<At(Mon28, 9, 0, 0)>>,
     <<At(Mon28, 9, 0, 0), At(Mon28, 9, 0, 0)>>,
     <<At(Mon28, 13, 45, 0), At(Mon28, 9, 0, 0)>>,
     <<At(Mon28, 9, 0, 0), At(Mon28, 17, 44, 59)>>,
     <<At(Mon28, 9, 0, 0), At(Mon28, 12, 0, 0), At(Mon28, 17, 45, 0)>>}

InitCell ==
    /\ pc = "main"
    /\ employee_df = <<RowA>>
    /\ \E ev \in CellEvents :
          kaoqin_df = <<[name |-> "C", t |-> At(Mon28, 8, 0, 0)]>>
                        \o [i \in 1..Len(ev) |-> [name |-> "A", t |-> ev[i]]]
    /\ work_days = {}
    /\ holiday_days = {}
    /\ xiujia_df \in BoundedSeq(CellRecords, MaxRecords)
    /\ waichu_df \in {<<>>, <<OutOfOffice>>}
    /\ chuchai_df = <<>>
    /\ linshika_df = <<>>
    /\ IdleRun /\ IdleMerge /\ IdleParse /\ IdleCalendar
    /\ IdleRecord

SpecCell == InitCell /\ [][Next]_vars

\* ---- merge_datetime_periods on short lists ----
MergePoints == {0, 30, 60, 120, 180}

MergeIntervals == {<<a, b>> : a \in MergePoints, b \in MergePoints} \
                    {<<a, b>> \in MergePoints \X MergePoints : a > b}

InitMerge ==
    /\ pc = "merge"
    /\ periods \in BoundedSeq(MergeIntervals, MaxPeriods)
    /\ merged = <<>>
    /\ remerged = <<>>
    /\ work_days = {}
    /\ holiday_days = {}
    /\ IdleInputs /\ IdleRun /\ IdleParse /\ IdleCalendar
    /\ IdleRecord

SpecMerge == InitMerge /\ [][NextMerge]_vars

\* ---- parse_datetime_str on short expressions ----
ParseParts ==
    {DatePart(2025, 4, 28), DatePart(2025, 2, 30), DatePart(2025, 13, 1),
     TimePart(11, 0), TimePart(25, 0), TimePart(11, 60),
     Part("hms", 11, 0, 0), Shangwu, Xiawu, Part("text", 0, 0, 0)}

InitParse ==
    /\ pc = "parse"
    /\ date_time_str \in BoundedSeq(ParseParts, MaxParts)
    /\ is_end_time \in BOOLEAN
    /\ parsed = ParseError
    /\ work_days = {}
    /\ holiday_days = {}
    /\ IdleInputs /\ IdleRun /\ IdleMerge /\ IdleCalendar
    /\ IdleRecord

SpecParse == InitParse /\ [][NextParse]_vars

\* ---- is_workday_from_calendar on the dates around 2025-04-26 ----
CalendarDates == {<<2025, 4, 25>>, <<2025, 4, 26>>, <<2025, 4, 28>>}

InitCalendar ==
    /\ pc = "calendar"
    /\ date_obj \in Fri25 - 3 .. Fri25 - 3 + CalendarSpan - 1
    /\ is_workday = FALSE
    /\ work_days \in SUBSET CalendarDates
    /\ holiday_days \in SUBSET CalendarDates
    /\ IdleInputs /\ IdleRun /\ IdleMerge /\ IdleParse
    /\ IdleRecord

SpecCalendar == InitCalendar /\ [][NextCalendar]_vars

\* ---- a run of A over Friday 2025-04-25 to Tuesday 2025-04-29, C badging too
RangeEvents ==
    {[name |-> "A", t |-> At(Fri25, 9, 0, 0)],
     [name |-> "A", t |-> At(Mon28, 9, 0, 0)],
     [name |-> "A", t |-> At(Tue29, 9, 0, 0)],
     [name |-> "C", t |-> At(Fri25, 9, 0, 0)],
     [name |-> "C", t |-> At(Mon28, 9, 0, 0)],
     [name |-> "C", t |-> At(Mon28, 18, 0, 0)]}

InitRange ==
    /\ pc = "main"
    /\ employee_df = <<RowA, RowC>>
    /\ kaoqin_df \in BoundedSeq(RangeEvents, MaxRangeEvents)
    /\ work_days = {}
    /\ holiday_days = {}
    /\ xiujia_df \in {<<>>, <<FridayLeaveA>>}
    /\ waichu_df = <<>>
    /\ chuchai_df = <<>>
    /\ linshika_df = <<>>
    /\ IdleRun /\ IdleMerge /\ IdleParse /\ IdleCalendar
    /\ IdleRecord

SpecRange == InitRange /\ [][Next]_vars

\* ---- filter_employees on short rosters ----
GradeWord == <<"G", "r", "a", "d", "e">>

GradeLabels ==
    {NaN, <<>>, Grade12, Grade13,
     GradeWord,                                       \* 'Grade'
     <<"P", "7">>,                                    \* 'P7'
     <<"1", "2">>,                                    \* '12'
     <<"g", "r", "a", "d", "e", " ", "5">>,           \* 'grade 5'
     GradeWord \o <<" ", " ", "9">>,                  \* 'Grade  9'
     GradeWord \o <<" ", "1", "3", "0">>,             \* 'Grade 130'
     <<"S", " ">> \o GradeWord \o <<"0", "7">>,       \* 'S Grade07'
     GradeWord \o <<"-">> \o GradeWord \o <<"5">>,    \* 'Grade-Grade5'
     Grade13 \o <<"/">> \o GradeWord \o <<"5">>,      \* 'Grade13/Grade5'
     GradeWord \o <<"5", "/">> \o Grade13}            \* 'Grade5/Grade13'

RosterKinds ==
    {<<"quanzhi", "Shanghai">>, <<"shixi", "Shanghai">>,
     <<"quanzhi", "Beijing">>}

RosterRows ==
    {RosterRow("A", "rd", k[1], k[2], g) :
        k \in RosterKinds, g \in GradeLabels} \cup {RowB, RowC}

InitRoster ==
    /\ pc = "filter"
    /\ employee_df \in BoundedSeq(RosterRows, MaxRows)
    /\ kaoqin_df = <<>>
    /\ xiujia_df = <<>>
    /\ waichu_df = <<>>
    /\ chuchai_df = <<>>
    /\ linshika_df = <<>>
    /\ work_days = {}
    /\ holiday_days = {}
    /\ IdleRun /\ IdleMerge /\ IdleParse /\ IdleCalendar
    /\ IdleRecord

SpecRoster == InitRoster /\ [][NextRoster]_vars

\* ---- process_absence_record on the records around 2025-04-28 ----
RecordStarts ==
    {<<DatePart(2025, 4, 25), Xiawu>>,
     <<DatePart(2025, 4, 28)>>,
     <<DatePart(2025, 4, 28), TimePart(8, 0)>>,
     <<DatePart(2025, 4, 28), TimePart(12, 15)>>,
     <<DatePart(2025, 4, 28), TimePart(18, 0)>>,
     <<DatePart(2025, 4, 28), TimePart(19, 0)>>,
     <<DatePart(2025, 4, 29), TimePart(10, 0)>>,
     <<DatePart(2025, 2, 30)>>}

RecordEnds ==
    {<<DatePart(2025, 4, 25)>>,
     <<DatePart(2025, 4, 28), TimePart(8, 30)>>,
     <<DatePart(2025, 4, 28), TimePart(9, 0)>>,
     <<DatePart(2025, 4, 28), Shangwu>>,
     <<DatePart(2025, 4, 28), TimePart(12, 45)>>,
     <<DatePart(2025, 4, 28)>>,
     <<DatePart(2025, 4, 28), TimePart(20, 0)>>,
     <<DatePart(2025, 4, 29), Shangwu>>,
     <<DatePart(2025, 4, 30)>>,
     <<DatePart(2025, 4, 28), TimePart(25, 0)>>}

InitRecord ==
    /\ pc = "record"
    /\ \E s \in RecordStarts : \E e \in RecordEnds :
          absence_record = Absence("A", "yishengxiao", "nianjia", s, e)
    /\ record_date \in Fri25 .. Fri25 + RecordSpan - 1
    /\ record_period = None
    /\ work_days = {}
    /\ holiday_days = {}
    /\ IdleInputs /\ IdleRun /\ IdleMerge /\ IdleParse /\ IdleCalendar

SpecRecord == InitRecord /\ [][NextRecord]_vars

-----------------------------------------------------------------------------
(* Properties.                                                              *)

QualifiedNames ==
    {filter_employees(employee_df)[i].name :
        i \in 1..Len(filter_employees(employee_df))}

RecordsOf(n, d) ==
    {i \in 1..Len(statistics_data) :
        statistics_data[i].name = n /\ ToDate(statistics_data[i].day) = d}

\* C1: when the loop has run over the range [start_date, end_date], every
\* workday of the range and every qualified employee have exactly one row
\* in statistics_data, whether or not anyone badged on that date, and no row
\* is for a non-workday or a non-qualified employee.
C1_OneRecordPerWorkdayAndEmployee ==
    pc = "report" =>
        /\ \A d \in start_date..end_date : \A n \in QualifiedNames :
              is_workday_from_calendar(d, work_days, holiday_days)
                 => Cardinality(RecordsOf(n, d)) = 1
        /\ \A i \in 1..Len(statistics_data) :
              /\ statistics_data[i].name \in QualifiedNames
              /\ is_workday_from_calendar(ToDate(statistics_data[i].day),
                                          work_days, holiday_days)

-----------------------------------------------------------------------------
\* the badge events of the employee-day of the last iteration, read from
\* the event table
CellEventTimes ==
    {i \in 1..Len(kaoqin_df) :
        /\ kaoqin_df[i].t # NaT
        /\ kaoqin_df[i].name = cell.name
        /\ kaoqin_df[i].t >= At(cell.day, 0, 0, 0)
        /\ kaoqin_df[i].t < At(cell.day + 1, 0, 0, 0)}

CellWorked ==
    IF CellEventTimes = {} THEN 0
    ELSE SetMax({kaoqin_df[i].t : i \in CellEventTimes})
           - SetMin({kaoqin_df[i].t : i \in CellEventTimes})

AbsenceTables == <<xiujia_df, waichu_df, chuchai_df>>

\* C2: workedHours = lastOut - firstIn (0 without events), requiredHours =
\* max(0, 8.75 - actualAbsenceHours), and the status is the first matching
\* rule of: no events and required > 0: no-punch; one event and worked <
\* required: single-punch-missing; worked < required: insufficient; else
\* normal.  No events and no absence rows give 8.75 and no-punch.
C2_StatusByFirstMatchingRule ==
    cell.name # "" =>
        LET n == Cardinality(CellEventTimes)
            w == CellWorked
            r == IF cell.actual_absence_hours >= BaseRequired THEN 0
                 ELSE BaseRequired - cell.actual_absence_hours
            rule1 == n = 0 /\ r > 0
            rule2 == n = 1 /\ w < r
            rule3 == w < r
        IN  /\ cell.record_count = n
            /\ cell.work_hours = w
            /\ cell.required_hours = r
            /\ rule1 => cell.status = "weidaka"
            /\ ~rule1 /\ rule2 => cell.status = "loudaka"
            /\ ~rule1 /\ ~rule2 /\ rule3 => cell.status = "chuqinbuzu"
            /\ ~rule1 /\ ~rule2 /\ ~rule3 => cell.status = "zhengchang"
            /\ (n = 0 /\ \A k \in 1..3 : AbsenceTables[k] = <<>>)
                  => cell.required_hours = BaseRequired
                       /\ cell.status = "weidaka"

C2_Witness ==
    /\ cell.name = "A"
    /\ CellEventTimes = {}
    /\ xiujia_df = <<>> /\ waichu_df = <<>> /\ chuchai_df = <<>>
    /\ cell.required_hours = 31500
    /\ cell.status = "weidaka"

\* a counted row of the employee whose interval spans 09:00 to 18:00 of the
\* day of the last iteration
CoversWorkday(r) ==
    /\ r.name = cell.name
    /\ r.status \in CountedStatus
    /\ parse_datetime_str(r.start, FALSE).ok
    /\ parse_datetime_str(r.end, TRUE).ok
    /\ parse_datetime_str(r.start, FALSE).t <= At(cell.day, 9, 0, 0)
    /\ parse_datetime_str(r.end, TRUE).t >= At(cell.day, 18, 0, 0)

FullyAbsent ==
    \E k \in 1..3 : \E i \in 1..Len(AbsenceTables[k]) :
        CoversWorkday(AbsenceTables[k][i])

\* C3: a counted absence over the whole window [09:00, 18:00) gives actual
\* absence 9.0 hours (lunch not deducted), required hours 0 and status
\* normal, also with no badge event.
C3_FullDayAbsenceIsNormal ==
    (cell.name # "" /\ FullyAbsent) =>
        /\ cell.actual_absence_hours = 9 * 3600
        /\ cell.required_hours = 0
        /\ cell.status = "zhengchang"

C3_Witness ==
    /\ cell.name = "A"
    /\ FullyAbsent
    /\ CellEventTimes = {}
    /\ cell.record_count = 0
    /\ cell.status = "zhengchang"

LunchStart == At(cell.day, 12, 0, 0)
LunchEnd   == At(cell.day, 13, 0, 0)

RECURSIVE SumSeconds(_)
SumSeconds(ps) ==
    IF ps = <<>> THEN 0
    ELSE (ps[1][2] - ps[1][1]) + SumSeconds(Tail(ps))

\* C4 as stated: when every merged absence interval ends at or before 12:00
\* or starts at or after 13:00, the actual absence hours equal the summed
\* length of the absence intervals.
C4_OutsideLunchUnaffected ==
    (cell.name # ""
       /\ \A i \in 1..Len(cell.merged_periods) :
             \/ cell.merged_periods[i][2] <= LunchStart
             \/ cell.merged_periods[i][1] >= LunchEnd)
    => cell.actual_absence_hours = SumSeconds(cell.merged_periods)

\* C4 amended: when every merged absence interval ends before 12:00 or
\* starts after 13:00, the actual absence hours equal the summed length of
\* the absence intervals.
C4_StrictlyOutsideLunchUnaffected ==
    (cell.name # ""
       /\ \A i \in 1..Len(cell.merged_periods) :
             \/ cell.merged_periods[i][2] < LunchStart
             \/ cell.merged_periods[i][1] > LunchEnd)
    => cell.actual_absence_hours = SumSeconds(cell.merged_periods)

C4_Witness ==
    /\ cell.name = "A"
    /\ Len(cell.merged_periods) = 2
    /\ cell.merged_periods[1][2] < LunchStart
    /\ cell.merged_periods[2][1] > LunchEnd
    /\ cell.actual_absence_hours = SumSeconds(cell.merged_periods)
    /\ cell.actual_absence_hours > 0

\* the minutes left of the merged absence and the lunch hour once the bare
\* lunch hour is taken out
ActualMinutesUncapped ==
    IF cell.merged_periods = <<>> THEN 0
    ELSE calculate_datetime_minutes(
             DropPeriod(merge_datetime_periods(
                            Append(cell.merged_periods,
                                   <<LunchStart, LunchEnd>>)),
                        <<LunchStart, LunchEnd>>))

\* C9: raw and actual absence hours lie in [0, 9.0] (actual 0 without an
\* absence interval), required hours in [0, 8.75], and the merged totals
\* before the cap never exceed 540 minutes, every interval lying in the
\* 9-hour window of the day.
C9_HoursWithinBounds ==
    cell.name # "" =>
        /\ cell.raw_absence_hours >= 0 /\ cell.raw_absence_hours <= 32400
        /\ cell.actual_absence_hours >= 0
        /\ cell.actual_absence_hours <= 32400
        /\ cell.merged_periods = <<>> => cell.actual_absence_hours = 0
        /\ cell.required_hours >= 0 /\ cell.required_hours <= 31500
        /\ \A i \in 1..Len(cell.merged_periods) :
              /\ At(cell.day, 9, 0, 0) <= cell.merged_periods[i][1]
              /\ cell.merged_periods[i][2] <= At(cell.day, 18, 0, 0)
        /\ SumSeconds(cell.merged_periods) <= 540 * 60
        /\ ActualMinutesUncapped <= 540
        /\ statistics_data[Len(statistics_data)].raw_absence_hours <= 900
        /\ statistics_data[Len(statistics_data)].actual_absence_hours <= 900
        /\ statistics_data[Len(statistics_data)].required_hours <= 875

C9_Witness ==
    /\ cell.name = "A"
    /\ \E i \in 1..Len(xiujia_df) :
          /\ xiujia_df[i].name = "A"
          /\ xiujia_df[i].status \in CountedStatus
          /\ xiujia_df[i].end = <<DatePart(2025, 4, 29), Shangwu>>
    /\ cell.merged_periods = <<<<At(Mon28, 9, 0, 0), At(Mon28, 18, 0, 0)>>>>
    /\ cell.raw_absence_hours = 32400
    /\ cell.actual_absence_hours = 32400

-----------------------------------------------------------------------------
\* C5: a date of the holiday set is no workday, also when it is in the
\* compensated-workday set; otherwise a date of the compensated-workday set
\* is a workday; otherwise the date is a workday exactly from Monday to
\* Friday (2025-04-26 is a Saturday).
C5_HolidayThenCompensatedThenWeekday ==
    pc = "classified" =>
        LET holiday     == \E str \in holiday_days : ToDate(str) = date_obj
            compensated == \E str \in work_days : ToDate(str) = date_obj
            weekend     == (date_obj - Sat26) % 7 \in {0, 1}
        IN  /\ holiday => ~is_workday
            /\ (~holiday /\ compensated) => is_workday
            /\ (~holiday /\ ~compensated) => (is_workday <=> ~weekend)
            /\ (work_days = {} /\ holiday_days = {})
                  => (is_workday <=> ~weekend)

C5_Witness ==
    /\ pc = "classified"
    /\ date_obj = Sat26
    /\ <<2025, 4, 26>> \in work_days
    /\ <<2025, 4, 26>> \in holiday_days
    /\ ~is_workday

-----------------------------------------------------------------------------
\* the instants of the grid that a list of periods covers, and the gaps
\* between neighbouring instants that it covers
GridPoints == UNION {{periods[i][1], periods[i][2]} : i \in 1..Len(periods)}

CoveredPoints(ps) ==
    {t \in GridPoints : \E i \in 1..Len(ps) : ps[i][1] <= t /\ t <= ps[i][2]}

CoveredGaps(ps) ==
    {g \in GridPoints \X GridPoints :
        /\ g[1] < g[2]
        /\ ~\E t \in GridPoints : g[1] < t /\ t < g[2]
        /\ \E i \in 1..Len(ps) : ps[i][1] <= g[1] /\ g[2] <= ps[i][2]}

Permuted(ps) ==
    {[i \in 1..Len(ps) |-> ps[f[i]]] :
        f \in {g \in [1..Len(ps) -> 1..Len(ps)] :
                  \A i, j \in 1..Len(ps) : g[i] = g[j] => i = j}}

\* C6: the merged list is sorted by start, each period ends strictly before
\* the next one starts, it covers exactly the time the input covers, and
\* every permutation of the input merges to the same list.
C6_MergedIsSortedDisjointCoveringAndOrderFree ==
    pc \in {"merged", "remerged"} =>
        /\ \A i \in 1..Len(merged) : merged[i][1] <= merged[i][2]
        /\ \A i \in 1..Len(merged) - 1 : merged[i][2] < merged[i + 1][1]
        /\ CoveredPoints(merged) = CoveredPoints(periods)
        /\ CoveredGaps(merged) = CoveredGaps(periods)
        /\ \A q \in Permuted(periods) : merge_datetime_periods(q) = merged

C6_Witness ==
    /\ pc = "merged"
    /\ periods = <<<<60, 120>>, <<0, 180>>, <<120, 180>>>>
    /\ merged = <<<<0, 180>>>>

\* C7: merging a merged list gives the same list.
C7_MergeIdempotent ==
    pc = "remerged" => remerged = merged

C7_Witness ==
    /\ pc = "remerged"
    /\ periods = <<<<60, 120>>, <<0, 30>>, <<30, 60>>>>
    /\ merged = <<<<0, 120>>>>
    /\ remerged = merged

Overlap(p, q) == Max(p[1], q[1]) < Min(p[2], q[2])

NoOverlap(ps) ==
    \A i, j \in 1..Len(ps) : i # j => ~Overlap(ps[i], ps[j])

WholeMinutes(ps) ==
    \A i \in 1..Len(ps) : ps[i][1] % 60 = 0 /\ ps[i][2] % 60 = 0

\* C8 as stated: the minutes of the merged list equal the per-period sum of
\* the input when no two periods overlap, and are at least that sum when
\* periods overlap.
C8_MergedMinutesAtLeastNaive ==
    pc = "merged" =>
        /\ NoOverlap(periods) =>
              calculate_datetime_minutes(merged)
                 = calculate_datetime_minutes(periods)
        /\ ~NoOverlap(periods) =>
              calculate_datetime_minutes(merged)
                 >= calculate_datetime_minutes(periods)

\* C8 amended: for periods that start and end on whole minutes, the minutes
\* of the merged list equal the per-period sum of the input when no two
\* periods overlap, and are at most that sum when periods overlap.
C8_MergedMinutesAtMostNaive ==
    (pc = "merged" /\ WholeMinutes(periods)) =>
        /\ NoOverlap(periods) =>
              calculate_datetime_minutes(merged)
                 = calculate_datetime_minutes(periods)
        /\ ~NoOverlap(periods) =>
              calculate_datetime_minutes(merged)
                 <= calculate_datetime_minutes(periods)

C8_Witness ==
    /\ pc = "merged"
    /\ periods = <<<<0, 120>>, <<60, 180>>>>
    /\ calculate_datetime_minutes(periods) = 4
    /\ calculate_datetime_minutes(merged) = 3

-----------------------------------------------------------------------------
\* C10: a bare date parses to 09:00 as start and 18:00 as end, a date with
\* the morning marker to 09:00 and 12:00, a date with the afternoon marker
\* to 13:00 and 18:00, a date with HH:MM to that time whatever the flag;
\* an invalid date, or a time that is neither a marker nor a valid HH:MM,
\* is a parse error.
C10_ParseTable ==
    pc = "parsed" =>
        LET str  == date_time_str
            n    == Len(str)
            date == ToDate(<<str[1].a, str[1].b, str[1].c>>)
            hour == IF parsed.ok THEN parsed.t - date * 86400 ELSE -1
        IN  /\ (n = 1 /\ IsDatePart(str[1])) =>
                  hour = IF is_end_time THEN 18 * 3600 ELSE 9 * 3600
            /\ (n = 2 /\ IsDatePart(str[1]) /\ str[2].k = "shangwu") =>
                  hour = IF is_end_time THEN 12 * 3600 ELSE 9 * 3600
            /\ (n = 2 /\ IsDatePart(str[1]) /\ str[2].k = "xiawu") =>
                  hour = IF is_end_time THEN 18 * 3600 ELSE 13 * 3600
            /\ (n = 2 /\ IsDatePart(str[1]) /\ IsTimePart(str[2])) =>
                  hour = str[2].a * 3600 + str[2].b * 60
            /\ (n >= 1 /\ ~IsDatePart(str[1])) => ~parsed.ok
            /\ (n >= 2 /\ str[2].k \notin {"shangwu", "xiawu"}
                  /\ ~IsTimePart(str[2])) => ~parsed.ok

C10_Witness ==
    /\ pc = "parsed"
    /\ date_time_str = <<DatePart(2025, 4, 28)>>
    /\ is_end_time
    /\ parsed = Parsed(At(Mon28, 18, 0, 0))

-----------------------------------------------------------------------------
\* the rows of statistics_data of an employee with a given status
StatusRecords(n, s) ==
    {i \in 1..Len(statistics_data) :
        statistics_data[i].name = n /\ statistics_data[i].status = s}

\* the rows of the exception summary of an employee
SummaryRowsOf(n) == {i \in 1..Len(summary_rows) : summary_rows[i].name = n}

\* the count the exception summary shows for (employee, status): the cell of
\* the employee's row, 0 for an employee without a row
SummaryCount(n, s) ==
    IF SummaryRowsOf(n) = {} THEN 0
    ELSE summary_rows[CHOOSE i \in SummaryRowsOf(n) : TRUE][s]

AllNames == {NameOrder[i] : i \in 1..Len(NameOrder)}

\* C11: while the records are built the running count of (employee, s)
\* equals the number of the employee's records with exception status s, and
\* in the finished summary every employee has at most one row, the count of
\* (employee, s) equals that number, the total is the sum of the three
\* counts, and the records with status normal are in no count.
C11_SummaryCountsRecords ==
    /\ \A n \in AllNames : \A s \in ExceptionStatus :
          Count(summary_data, s, n) = Cardinality(StatusRecords(n, s))
    /\ pc = "exit" =>
          \A n \in AllNames :
              /\ Cardinality(SummaryRowsOf(n)) <= 1
              /\ \A s \in ExceptionStatus :
                    SummaryCount(n, s) = Cardinality(StatusRecords(n, s))
              /\ SummaryCount(n, "total")
                    = SummaryCount(n, "weidaka") + SummaryCount(n, "loudaka")
                        + SummaryCount(n, "chuqinbuzu")
              /\ SummaryCount(n, "total")
                    = Cardinality({i \in 1..Len(statistics_data) :
                          /\ statistics_data[i].name = n
                          /\ statistics_data[i].status # "zhengchang"})

C11_Witness ==
    /\ pc = "exit"
    /\ StatusRecords("A", "zhengchang") # {}
    /\ SummaryCount("A", "total") = 0
    /\ SummaryCount("B", "weidaka") = 1
    /\ SummaryCount("B", "total") = 1
    /\ Len(statistics_data) = 2

-----------------------------------------------------------------------------
\* C12: in the finished exception summary a row with a higher total stands
\* before every row with a lower total, and the rows of equal total stand in
\* the order they had before the sort, the ascending order of the names; the
\* rows are those of the employees with an exception.
C12_SummaryOrderedByTotalThenName ==
    pc = "exit" =>
        /\ \A i \in 1..Len(summary_rows) : \A j \in 1..Len(summary_rows) :
              i < j =>
                /\ summary_rows[i].total >= summary_rows[j].total
                /\ summary_rows[i].total = summary_rows[j].total
                      => NameRank(summary_rows[i].name)
                           < NameRank(summary_rows[j].name)
        /\ {summary_rows[i].name : i \in 1..Len(summary_rows)}
              = {n \in AllNames : \E s \in ExceptionStatus :
                                     StatusRecords(n, s) # {}}

\* B, later in name order, stands first with the higher total
C12_Witness ==
    /\ pc = "exit"
    /\ Len(summary_rows) = 2
    /\ summary_rows[1].name = "B" /\ summary_rows[1].total = 2
    /\ summary_rows[2].name = "A" /\ summary_rows[2].total = 1

\* A and B tie and stand in name order although B was counted first
C12_WitnessTie ==
    /\ pc = "exit"
    /\ employee_df = <<RowB, RowA>>
    /\ Len(summary_rows) = 2
    /\ summary_rows[1].name = "A" /\ summary_rows[2].name = "B"
    /\ summary_rows[1].total = summary_rows[2].total

-----------------------------------------------------------------------------
\* the decimal value of a sequence of digits
RECURSIVE Decimal(_)
Decimal(ds) ==
    IF ds = <<>> THEN 0
    ELSE 10 * Decimal(SubSeq(ds, 1, Len(ds) - 1)) + DigitVal(ds[Len(ds)])

\* the positions of the word 'Grade' in a label
GradeWords(s) ==
    {i \in 1..(Len(s) - 4) : SubSeq(s, i, i + 4) = GradeWord}

\* a number follows the word at position i: spaces up to k, then the digits
\* k..e and no digit after them
NumberAfter(s, i, k, e) ==
    /\ k <= e
    /\ \A j \in (i + 5)..(k - 1) : s[j] = " "
    /\ \A j \in k..e : s[j] \in Digits
    /\ e < Len(s) => s[e + 1] \notin Digits

\* the numbers of the occurrences of 'Grade <number>' in a label, each with
\* the position of its word
GradeNumbers(s) ==
    IF s = NaN THEN {}
    ELSE UNION {{<<i, Decimal(SubSeq(s, t[1], t[2]))>> :
                    t \in {u \in ((i + 5)..Len(s)) \X ((i + 5)..Len(s)) :
                              NumberAfter(s, i, u[1], u[2])}} :
                i \in GradeWords(s)}

InQualified(r) == \E i \in 1..Len(qualified_df) : qualified_df[i] = r

\* C13 as stated: a row is kept exactly when it is full-time, located in
\* Shanghai and its grade label contains some 'Grade <number>' with a number
\* below 13.
C13_QualifiedIffSomeGradeBelowCeiling ==
    pc = "filtered" =>
        \A i \in 1..Len(employee_df) :
            InQualified(employee_df[i])
              <=> /\ employee_df[i].type = "quanzhi"
                  /\ employee_df[i].location = "Shanghai"
                  /\ \E g \in GradeNumbers(employee_df[i].grade) : g[2] < 13

\* C13 amended: a row is kept exactly when it is full-time, located in
\* Shanghai and the first 'Grade <number>' of its grade label has a number
\* below 13; a label that is missing, empty or without a 'Grade <number>'
\* is never kept, and the kept rows stand in roster order.
C13_QualifiedIffFirstGradeBelowCeiling ==
    pc = "filtered" =>
        /\ \A i \in 1..Len(employee_df) :
              /\ InQualified(employee_df[i])
                    <=> /\ employee_df[i].type = "quanzhi"
                        /\ employee_df[i].location = "Shanghai"
                        /\ \E g \in GradeNumbers(employee_df[i].grade) :
                              /\ g[2] < 13
                              /\ \A h \in GradeNumbers(employee_df[i].grade) :
                                    g[1] <= h[1]
              /\ GradeNumbers(employee_df[i].grade) = {}
                    => ~InQualified(employee_df[i])
        /\ \E f \in [1..Len(qualified_df) -> 1..Len(employee_df)] :
              /\ \A a \in 1..Len(qualified_df) :
                    qualified_df[a] = employee_df[f[a]]
              /\ \A a \in 1..Len(qualified_df) : \A b \in 1..Len(qualified_df) :
                    a < b => f[a] < f[b]

C13_Witness ==
    /\ pc = "filtered"
    /\ Len(employee_df) = 2
    /\ employee_df[1].type = "quanzhi" /\ employee_df[1].location = "Shanghai"
    /\ employee_df[1].grade = Grade13 \o <<"/">> \o GradeWord \o <<"5">>
    /\ employee_df[2].grade = GradeWord \o <<"-">> \o GradeWord \o <<"5">>
    /\ qualified_df = <<employee_df[2]>>

-----------------------------------------------------------------------------
RecordStart == parse_datetime_str(absence_record.start, FALSE)
RecordEnd   == parse_datetime_str(absence_record.end, TRUE)

WindowStart == At(record_date, 9, 0, 0)
WindowEnd   == At(record_date, 18, 0, 0)

ClippedStart ==
    IF RecordStart.t > WindowStart THEN RecordStart.t ELSE WindowStart
ClippedEnd ==
    IF RecordEnd.t < WindowEnd THEN RecordEnd.t ELSE WindowEnd

\* C14: a record with parsed interval [s, e] is discarded for target date d
\* when date(e) < d, when date(s) > d or when max(s, d 09:00) >= min(e, d
\* 18:00); otherwise it contributes [max(s, d 09:00), min(e, d 18:00)], with
\* d 09:00 <= start < end <= d 18:00; a record with date(s) < d < date(e)
\* contributes the whole window of d.
C14_ClippedToWindowOrDiscarded ==
    (pc = "processed" /\ RecordStart.ok /\ RecordEnd.ok) =>
        /\ record_period = None
              <=> \/ DateOf(RecordEnd.t) < record_date
                  \/ DateOf(RecordStart.t) > record_date
                  \/ ClippedStart >= ClippedEnd
        /\ record_period # None =>
              /\ record_period = <<ClippedStart, ClippedEnd>>
              /\ WindowStart <= record_period[1]
              /\ record_period[1] < record_period[2]
              /\ record_period[2] <= WindowEnd
        /\ (DateOf(RecordStart.t) < record_date
               /\ record_date < DateOf(RecordEnd.t))
              => record_period = <<WindowStart, WindowEnd>>

\* Friday afternoon to Wednesday, seen from the Monday in between
C14_Witness ==
    /\ pc = "processed"
    /\ absence_record.start = <<DatePart(2025, 4, 25), Xiawu>>
    /\ absence_record.end = <<DatePart(2025, 4, 30)>>
    /\ record_date = Mon28
    /\ record_period = <<At(Mon28, 9, 0, 0), At(Mon28, 18, 0, 0)>>

\* 18:00 to 20:00 touches the window in one instant and is discarded
C14_WitnessEmpty ==
    /\ pc = "processed"
    /\ absence_record.start = <<DatePart(2025, 4, 28), TimePart(18, 0)>>
    /\ absence_record.end = <<DatePart(2025, 4, 28), TimePart(20, 0)>>
    /\ record_date = Mon28
    /\ record_period = None

-----------------------------------------------------------------------------
\* a table without its row i
Removed(df, i) == SubSeq(df, 1, i - 1) \o SubSeq(df, i + 1, Len(df))

\* the three absence tables, table k given
WithTable(k, df) == [AbsenceTables EXCEPT ![k] = df]

FailsToParse(r) ==
    \/ ~parse_datetime_str(r.start, FALSE).ok
    \/ ~parse_datetime_str(r.end, TRUE).ok

\* the absence values and the status of the last iteration are those of the
\* result a of get_absence_hours
SameAbsence(a) ==
    /\ cell.raw_absence_hours = a.raw
    /\ cell.actual_absence_hours = a.actual
    /\ cell.text = a.text
    /\ cell.required_hours = Max(0, BaseRequired - a.actual)
    /\ cell.status = Status(cell.record_count, cell.work_hours,
                            Max(0, BaseRequired - a.actual))

\* the values of the employee-day of the last iteration are those computed
\* from the three tables ts
SameWithTables(ts) ==
    SameAbsence(get_absence_hours(cell.name, cell.day, ts[1], ts[2], ts[3]))

\* C15: a record whose start or end expression fails to parse gives no
\* interval (and so no description entry), the iteration completes, and the
\* raw hours, actual hours, description and status of the employee-day are
\* those computed with the record removed from its table.
C15_ParseFailureSkipsRecordOnly ==
    cell.name # "" =>
        \A k \in 1..3 : \A i \in 1..Len(AbsenceTables[k]) :
            FailsToParse(AbsenceTables[k][i]) =>
                /\ process_absence_record(AbsenceTables[k][i], cell.day,
                                          At(cell.day, 9, 0, 0),
                                          At(cell.day, 18, 0, 0)) = None
                /\ SameWithTables(WithTable(k, Removed(AbsenceTables[k], i)))
                /\ pc \in {"loop", "report", "exit"}

\* an unparseable row of A beside a morning leave that counts
C15_Witness ==
    /\ cell.name = "A"
    /\ Len(xiujia_df) = 2
    /\ xiujia_df[1].name = "A" /\ xiujia_df[1].status \in CountedStatus
    /\ FailsToParse(xiujia_df[1])
    /\ ~FailsToParse(xiujia_df[2])
    /\ waichu_df = <<>>
    /\ Len(cell.text) = 1
    /\ cell.raw_absence_hours = 3 * 3600
    /\ pc = "exit"

-----------------------------------------------------------------------------
\* a row of the queried employee with a counted status
Counts(r) == r.name = cell.name /\ r.status \in CountedStatus

\* the row with the other of the two counted statuses
OtherCounted(r) ==
    [r EXCEPT !.status = IF r.status = "yishengxiao" THEN "weishengxiao"
                         ELSE "yishengxiao"]

\* C16: a row of another employee or of a status other than effective and
\* pending-effective leaves the raw hours, actual hours, description and
\* status of the employee-day as they are without the row (so adding,
\* removing or changing such a row changes nothing), and a counted row gives
\* the same values with either of the two counted statuses.
C16_OnlyOwnCountedRecordsContribute ==
    cell.name # "" =>
        \A k \in 1..3 : \A i \in 1..Len(AbsenceTables[k]) :
            IF Counts(AbsenceTables[k][i])
            THEN SameWithTables(WithTable(k,
                     [AbsenceTables[k] EXCEPT
                         ![i] = OtherCounted(AbsenceTables[k][i])]))
            ELSE SameWithTables(WithTable(k, Removed(AbsenceTables[k], i)))

\* a revoked full-day leave of A and a full-day leave of B: A has no absence
C16_Witness ==
    /\ cell.name = "A"
    /\ Len(xiujia_df) = 2
    /\ xiujia_df[1].name = "A" /\ xiujia_df[1].status = "yichexiao"
    /\ xiujia_df[2].name = "B" /\ xiujia_df[2].status \in CountedStatus
    /\ waichu_df = <<>>
    /\ cell.raw_absence_hours = 0
    /\ cell.text = <<>>
    /\ cell.required_hours = BaseRequired

\* the pending out-of-office half hour counts like an effective one
C16_WitnessPending ==
    /\ cell.name = "A"
    /\ xiujia_df = <<>>
    /\ waichu_df = <<OutOfOffice>>
    /\ OutOfOffice.status = "weishengxiao"
    /\ cell.raw_absence_hours = 1800

-----------------------------------------------------------------------------
\* the row of statistics_data a run over the badge events kaoqin has for
\* employee e and date d: <<row>>, or <<>> when the run has none
RunRecord(kaoqin, e, d) ==
    IF /\ \E i \in 1..Len(qualified_employees) : qualified_employees[i] = e
       /\ d \in EventDates(kaoqin)
       /\ is_workday_from_calendar(d, work_days, holiday_days)
    THEN <<StatisticsRow(Cell(e, d, kaoqin, xiujia_df, waichu_df, chuchai_df,
                              linshika_df),
                         EmployeeDept(qualified_df, e))>>
    ELSE <<>>

\* a badge event that is not one of employee e on date d
Foreign(ev, e, d) == ev.name # e \/ DateOf(ev.t) # d

\* the event tables that differ from kaoqin_df in one event foreign to
\* (e, d), replaced by a foreign event, with the same first and last date
ForeignChanges(e, d) ==
    {alt \in {[kaoqin_df EXCEPT ![i] = g] :
                 i \in {j \in 1..Len(kaoqin_df) :
                           Foreign(kaoqin_df[j], e, d)},
                 g \in {h \in RangeEvents : Foreign(h, e, d)}} :
        /\ SetMin(EventDates(alt)) = start_date
        /\ SetMax(EventDates(alt)) = end_date}

\* C17: the record of employee e for workday d stays present and unchanged
\* when a badge event of another employee, or one of e on another date, is
\* changed and the date range stays the same.
C17_CellIndependentOfForeignEvents ==
    pc = "exit" =>
        \A i \in 1..Len(statistics_data) :
            \A alt \in ForeignChanges(statistics_data[i].name,
                                      ToDate(statistics_data[i].day)) :
                RunRecord(alt, statistics_data[i].name,
                          ToDate(statistics_data[i].day))
                  = <<statistics_data[i]>>

\* the content alone: a record that is still there after such a change is
\* unchanged
C17_ContentIndependentOfForeignEvents ==
    pc = "exit" =>
        \A i \in 1..Len(statistics_data) :
            \A alt \in ForeignChanges(statistics_data[i].name,
                                      ToDate(statistics_data[i].day)) :
                RunRecord(alt, statistics_data[i].name,
                          ToDate(statistics_data[i].day))
                  \in {<<>>, <<statistics_data[i]>>}

-----------------------------------------------------------------------------
\* the interval of a row that parses, cut to the window of the day of the
\* last iteration
CutStart(r) ==
    IF parse_datetime_str(r.start, FALSE).t > At(cell.day, 9, 0, 0)
    THEN parse_datetime_str(r.start, FALSE).t ELSE At(cell.day, 9, 0, 0)
CutEnd(r) ==
    IF parse_datetime_str(r.end, TRUE).t < At(cell.day, 18, 0, 0)
    THEN parse_datetime_str(r.end, TRUE).t ELSE At(cell.day, 18, 0, 0)

\* a surviving record: right employee and status, parsed, overlapping the
\* day, not empty after the cut
Survives(r) ==
    /\ Counts(r)
    /\ ~FailsToParse(r)
    /\ DateOf(parse_datetime_str(r.start, FALSE).t) <= cell.day
    /\ DateOf(parse_datetime_str(r.end, TRUE).t) >= cell.day
    /\ CutStart(r) < CutEnd(r)

HourMinute(t) == <<(t % 86400) \div 3600, (t % 3600) \div 60>>

\* the entries of the surviving rows of a table, in row order
RECURSIVE Entries(_)
Entries(df) ==
    IF df = <<>> THEN <<>>
    ELSE (IF Survives(Head(df))
          THEN <<[type  |-> Head(df).type,
                  start |-> HourMinute(CutStart(Head(df))),
                  end   |-> HourMinute(CutEnd(Head(df)))]>>
          ELSE <<>>) \o Entries(Tail(df))

\* C18: the description has one entry per surviving record, with the
\* record's type and its cut start and end, the entries of the leave table
\* first, then out-of-office, then business travel, in row order inside a
\* table, whether or not the records overlap; it is non-empty exactly when
\* the raw absence hours are positive.
C18_DescriptionPerSurvivingRecord ==
    cell.name # "" =>
        /\ cell.text = Entries(xiujia_df) \o Entries(waichu_df)
                          \o Entries(chuchai_df)
        /\ cell.text # <<>> <=> cell.raw_absence_hours > 0
        /\ statistics_data[Len(statistics_data)].text = cell.text

\* leave 09:00-18:00 and out-of-office 10:00-10:30 overlap: one merged
\* period, two entries, the leave first
C18_Witness ==
    /\ cell.name = "A"
    /\ Len(xiujia_df) = 1 /\ waichu_df = <<OutOfOffice>>
    /\ Len(cell.merged_periods) = 1
    /\ cell.text = <<[type |-> "nianjia", start |-> <<9, 0>>,
                      end |-> <<18, 0>>],
                     [type |-> "waichu", start |-> <<10, 0>>,
                      end |-> <<10, 30>>]>>

-----------------------------------------------------------------------------
\* C19: the status of an employee-day is normal exactly when the worked
\* hours reach the required hours; with exactly one badge event the worked
\* hours are 0 and the status is single-punch-missing exactly when the
\* required hours are positive (normal otherwise); insufficient-attendance
\* is given only with at least two badge events.
C19_NormalIffWorkedReachesRequired ==
    cell.name # "" =>
        /\ cell.status = "zhengchang"
              <=> CellWorked >= cell.required_hours
        /\ Cardinality(CellEventTimes) = 1 =>
              /\ cell.work_hours = 0
              /\ cell.status = "loudaka" <=> cell.required_hours > 0
              /\ cell.status \in {"loudaka", "zhengchang"}
        /\ cell.status = "chuqinbuzu" => Cardinality(CellEventTimes) >= 2
        /\ statistics_data[Len(statistics_data)].status = cell.status

\* one badge event and a leave over the whole day: nothing required, normal
C19_Witness ==
    /\ cell.name = "A"
    /\ Cardinality(CellEventTimes) = 1
    /\ cell.required_hours = 0
    /\ cell.work_hours = 0
    /\ cell.status = "zhengchang"

\* one badge event and a morning leave: single punch missing
C19_WitnessSingle ==
    /\ cell.name = "A"
    /\ Cardinality(CellEventTimes) = 1
    /\ cell.required_hours > 0 /\ cell.required_hours < BaseRequired
    /\ cell.status = "loudaka"

\* two badge events at the same instant: insufficient attendance
C19_WitnessInsufficient ==
    /\ cell.name = "A"
    /\ Cardinality(CellEventTimes) = 2
    /\ cell.work_hours = 0
    /\ cell.status = "chuqinbuzu"

-----------------------------------------------------------------------------
\* the raw absence hours before the cap
RawUncapped == calculate_datetime_minutes(cell.merged_periods) * 60

WithinLunch(p) == LunchStart <= p[1] /\ p[2] <= LunchEnd
MeetsLunch(p)  == p[1] <= LunchEnd /\ LunchStart <= p[2]
CoversLunch(p) == p[1] <= LunchStart /\ LunchEnd <= p[2]

\* C20: the actual absence hours differ from the uncapped raw absence hours
\* by at most one hour; they are lower only when a merged interval lies
\* within [12:00, 13:00], higher only when a merged interval touches or
\* overlaps [12:00, 13:00] without covering it; an absence wholly inside
\* the lunch hour gives actual 0 and required 8.75, and the morning
\* [09:00, 12:00] gives raw 3.0 and actual 4.0.
C20_ActualWithinOneHourOfRaw ==
    cell.name # "" =>
        /\ cell.actual_absence_hours - RawUncapped <= 3600
        /\ RawUncapped - cell.actual_absence_hours <= 3600
        /\ cell.actual_absence_hours < RawUncapped =>
              \E i \in 1..Len(cell.merged_periods) :
                  WithinLunch(cell.merged_periods[i])
        /\ cell.actual_absence_hours > RawUncapped =>
              \E i \in 1..Len(cell.merged_periods) :
                  /\ MeetsLunch(cell.merged_periods[i])
                  /\ ~CoversLunch(cell.merged_periods[i])
        /\ (cell.merged_periods # <<>>
               /\ \A i \in 1..Len(cell.merged_periods) :
                      WithinLunch(cell.merged_periods[i]))
              => /\ cell.actual_absence_hours = 0
                 /\ cell.required_hours = BaseRequired
        /\ cell.merged_periods
               = <<<<At(cell.day, 9, 0, 0), At(cell.day, 12, 0, 0)>>>>
              => /\ cell.raw_absence_hours = 3 * 3600
                 /\ cell.actual_absence_hours = 4 * 3600

\* the morning leave: raw 3.0, actual 4.0
C20_Witness ==
    /\ cell.name = "A"
    /\ cell.merged_periods = <<<<At(Mon28, 9, 0, 0), At(Mon28, 12, 0, 0)>>>>
    /\ cell.raw_absence_hours = 10800
    /\ cell.actual_absence_hours = 14400

\* the lunch hour itself taken as leave: raw 1.0, actual 0
C20_WitnessLunchHour ==
    /\ cell.name = "A"
    /\ cell.merged_periods = <<<<LunchStart, LunchEnd>>>>
    /\ cell.raw_absence_hours = 3600
    /\ cell.actual_absence_hours = 0

\* 12:15 to 12:45: raw 0.5, actual 0, required 8.75
C20_WitnessInsideLunch ==
    /\ cell.name = "A"
    /\ cell.merged_periods
          = <<<<At(Mon28, 12, 15, 0), At(Mon28, 12, 45, 0)>>>>
    /\ cell.raw_absence_hours = 1800
    /\ cell.actual_absence_hours = 0
    /\ cell.required_hours = BaseRequired

====
